---- MODULE Spec2Model ----
(***************************************************************************)
(* Detection metrics of supervision/metrics/detection.py: the confusion    *)
(* matrix (ConfusionMatrix.from_tensors, evaluate_detection_batch,         *)
(* _drop_extra_matches) and the matching of the mean average precision     *)
(* (MeanAveragePrecision.from_tensors, _match_detection_batch).            *)
(*                                                                         *)
(* Representation.  An (N, 5) target array is a sequence of rows           *)
(* <<x_min, y_min, x_max, y_max, class>>, an (M, 6) prediction array a     *)
(* sequence of rows <<x_min, y_min, x_max, y_max, class, conf>>.  Row      *)
(* indices are 1-based here and 0-based in numpy.  Box coordinates are     *)
(* integers; confidences and thresholds are in hundredths (0.3 is 30); an  *)
(* IoU is the exact fraction <<intersection, union>> and is compared by    *)
(* cross-multiplication, so comparisons are those of real arithmetic.      *)
(***************************************************************************)
EXTENDS Integers, Sequences, FiniteSets, TLC

\* Bounds of the model.
MaxTargets == 2
MaxPredictions == 2
MaxImages == 2

\* Defaults of from_tensors, in hundredths.
conf_threshold == 30
iou_threshold == 50

\* Column indices of the arrays (0-based in the source, 1-based here).
class_id_idx == 5
conf_idx == 6

\* Inputs of the single-image specifications.
Classes == {0, 1}
BoxCatalogue ==
    { <<0, 0, 10, 1>>, <<0, 0, 9, 1>>, <<1, 0, 12, 1>>, <<0, 0, 20, 1>> }
ConfCatalogue == {30, 90}
WideConfCatalogue == {20, 30, 90}
TieOrders == {"stable", "reversed"}

VARIABLES
    predictions,   \* the predictions argument: one (M, 6) array per image
    targets,       \* the targets argument: one (N, 5) array per image
    num_classes,   \* len(classes)
    ties,          \* how this build's argsort orders equal keys
    pc,            \* position in from_tensors
    idx,           \* the image the zip loop is at
    matrix,        \* ConfusionMatrix.from_tensors: the accumulated matrix
    batch,         \* the matrix evaluate_detection_batch returned last
    matches,       \* the match set evaluate_detection_batch used last
    stats,         \* MeanAveragePrecision.from_tensors: the stats list
    correct,       \* the array _match_detection_batch returned last
    ap_matches,    \* its match set at each IoU level
    average_precisions,      \* the array _average_precisions_per_class returned
    mean_average_precision,  \* the instance it returned
    exception,     \* the exception that reached the caller, or "none"
    prediction_detections,   \* from_detections: the predictions argument
    target_detections,       \* from_detections: the targets argument
    dataset,       \* benchmark: the dataset argument
    callback,      \* benchmark: what the callback does with each image
    calls,         \* benchmark: the images the callback was invoked with
    recall_curve,      \* compute_average_precision: the recall argument
    precision_curve,   \* compute_average_precision: the precision argument
    average_precision,       \* the value it returned
    earlier        \* the instance an earlier call of from_tensors returned

vars == <<predictions, targets, num_classes, ties, pc, idx, matrix, batch,
          matches, stats, correct, ap_matches, average_precisions,
          mean_average_precision, exception, prediction_detections,
          target_detections, dataset, callback, calls, recall_curve,
          precision_curve, average_precision, earlier>>

\* The arguments and the log of the calls above from_tensors.
driver == <<prediction_detections, target_detections, dataset, callback, calls>>

\* The call of compute_average_precision on its own.
curve == <<recall_curve, precision_curve, average_precision>>

----------------------------------------------------------------------------
\* Helpers on sequences.

Min2(a, b) == IF a < b THEN a ELSE b
Max2(a, b) == IF a > b THEN a ELSE b
MinOf(S) == CHOOSE a \in S : \A b \in S : a <= b

SeqsUpTo(S, n) == UNION {[1..k -> S] : k \in 0..n}
Reverse(s) == [k \in 1..Len(s) |-> s[Len(s) + 1 - k]]
Column(m, c) == [k \in 1..Len(m) |-> m[k][c]]
\* m[index]: fancy indexing of the rows of m by an index array.
Take(m, index) == [k \in 1..Len(index) |-> m[index[k]]]

\* np.concatenate(arrays, 0)
RECURSIVE concatenate(_)
concatenate(arrays) ==
    IF Len(arrays) = 0 THEN << >> ELSE Head(arrays) \o concatenate(Tail(arrays))

\* Comparisons of IoU fractions <<inter, union>>, union > 0.
IoULess(a, b) == a[1] * b[2] < b[1] * a[2]
IoUEq(a, b) == a[1] * b[2] = b[1] * a[2]
\* iou > threshold and iou >= level, the threshold in hundredths.
IoUAbove(a, hundredths) == a[1] * 100 > hundredths * a[2]
IoUAtLeast(a, hundredths) == a[1] * 100 >= hundredths * a[2]

----------------------------------------------------------------------------
\* supervision.detection.utils.box_iou_batch.

box_area(box) == (box[3] - box[1]) * (box[4] - box[2])

box_iou(t, d) ==
    LET w == Max2(Min2(t[3], d[3]) - Max2(t[1], d[1]), 0)
        h == Max2(Min2(t[4], d[4]) - Max2(t[2], d[2]), 0)
        inter == w * h
        union == box_area(t) + box_area(d) - inter
    IN  IF union = 0 THEN <<0, 1>> ELSE <<inter, union>>

box_iou_batch(boxes_true, boxes_detection) ==
    [i \in 1..Len(boxes_true) |->
        [j \in 1..Len(boxes_detection) |->
            box_iou(boxes_true[i], boxes_detection[j])]]

----------------------------------------------------------------------------
\* numpy operations used by the matching.

\* keys.argsort(): the indices that sort keys ascending.  The default kind
\* is not a stable sort, so the order of equal keys is the build's: index
\* order ("stable") or its reverse ("reversed").
argsort(keys, t) ==
    LET n == Len(keys)
        before(a, b) ==
            \/ IoULess(keys[a], keys[b])
            \/ /\ IoUEq(keys[a], keys[b])
               /\ IF t = "stable" THEN a < b ELSE a > b
        rank(a) == Cardinality({b \in 1..n : before(b, a)}) + 1
    IN  [r \in 1..n |-> CHOOSE a \in 1..n : rank(a) = r]

\* np.unique(col, return_index=True)[1]: for each distinct value of col, in
\* ascending order of the values, the index of its first occurrence.
unique_index(col) ==
    LET vals == {col[k] : k \in 1..Len(col)}
        first(v) == MinOf({k \in 1..Len(col) : col[k] = v})
        rank(v) == Cardinality({u \in vals : u < v}) + 1
    IN  [r \in 1..Cardinality(vals) |->
            first(CHOOSE v \in vals : rank(v) = r)]

\* np.asarray(mask).nonzero() / np.where(mask): the <<row, column>> pairs
\* where an N x M mask holds, in row-major order.
nonzero(mask, N, M) ==
    LET all == [k \in 1..(N * M) |-> <<((k - 1) \div M) + 1, ((k - 1) % M) + 1>>]
    IN  SelectSeq(all, LAMBDA ij : mask[ij[1]][ij[2]])

\* The rows (target index, prediction index, iou) of the listed pairs.
stack(x, iou) == [k \in 1..Len(x) |-> <<x[k][1], x[k][2], iou[x[k][1]][x[k][2]]>>]

----------------------------------------------------------------------------
\* ConfusionMatrix.

\* As drop_extra_matches, without the sorts by IoU.
drop_extra_matches_unsorted(m, t) ==
    IF Len(m) > 0
    THEN LET m2 == Take(m, unique_index(Column(m, 2)))
         IN  Take(m2, unique_index(Column(m2, 1)))
    ELSE m

\* As drop_extra_matches, without the deduplication by target.
drop_extra_matches_by_prediction_only(m, t) ==
    IF Len(m) > 0
    THEN LET m1 == Take(m, Reverse(argsort(Column(m, 3), t)))
             m2 == Take(m1, unique_index(Column(m1, 2)))
         IN  Take(m2, Reverse(argsort(Column(m2, 3), t)))
    ELSE m

drop_extra_matches(m, t) ==
    IF Len(m) > 0
    THEN LET m1 == Take(m, Reverse(argsort(Column(m, 3), t)))
             m2 == Take(m1, unique_index(Column(m1, 2)))
             m3 == Take(m2, Reverse(argsort(Column(m2, 3), t)))
             m4 == Take(m3, unique_index(Column(m3, 1)))
         IN  m4
    ELSE m

\* As filter_confidence, keeping a confidence equal to the threshold.
filter_confidence_inclusive(preds, conf_thr) ==
    SelectSeq(preds, LAMBDA row : row[conf_idx] >= conf_thr)

\* predictions[confidence > conf_threshold]
filter_confidence(preds, conf_thr) ==
    SelectSeq(preds, LAMBDA row : row[conf_idx] > conf_thr)

Boxes(rows) == [k \in 1..Len(rows) |-> <<rows[k][1], rows[k][2], rows[k][3], rows[k][4]>>]

\* As detection_candidates, with iou >= iou_threshold.
detection_candidates_inclusive(preds, tgts, conf_thr, iou_thr) ==
    LET detection_batch_filtered == filter_confidence(preds, conf_thr)
        N == Len(tgts)
        M == Len(detection_batch_filtered)
        iou_batch == box_iou_batch(Boxes(tgts), Boxes(detection_batch_filtered))
        mask == [i \in 1..N |-> [j \in 1..M |-> IoUAtLeast(iou_batch[i][j], iou_thr)]]
    IN  stack(nonzero(mask, N, M), iou_batch)

\* The rows evaluate_detection_batch stacks: the pairs of a target and a
\* prediction above the confidence threshold with iou > iou_threshold.
detection_candidates(preds, tgts, conf_thr, iou_thr) ==
    LET detection_batch_filtered == filter_confidence(preds, conf_thr)
        N == Len(tgts)
        M == Len(detection_batch_filtered)
        iou_batch == box_iou_batch(Boxes(tgts), Boxes(detection_batch_filtered))
        mask == [i \in 1..N |-> [j \in 1..M |-> IoUAbove(iou_batch[i][j], iou_thr)]]
    IN  stack(nonzero(mask, N, M), iou_batch)

\* The match set of evaluate_detection_batch.
detection_matches(preds, tgts, conf_thr, iou_thr, t) ==
    LET m == detection_candidates(preds, tgts, conf_thr, iou_thr)
    IN  IF Len(m) > 0 THEN drop_extra_matches(m, t) ELSE << >>

zeros(n) == [r \in 0..n |-> [c \in 0..n |-> 0]]
increment(m, r, c) == [m EXCEPT ![r][c] = @ + 1]

\* As target_loop, with no count for a target that has no match.
RECURSIVE target_loop_matched_only(_, _, _, _, _, _)
target_loop_matched_only(i, result_matrix, true_classes, detection_classes, m, n) ==
    IF i > Len(true_classes)
    THEN result_matrix
    ELSE LET j == {k \in 1..Len(m) : m[k][1] = i}
             next ==
                 IF Len(m) > 0 /\ Cardinality(j) = 1
                 THEN increment(result_matrix, true_classes[i],
                                detection_classes[m[CHOOSE k \in j : TRUE][2]])
                 ELSE result_matrix
         IN  target_loop_matched_only(i + 1, next, true_classes,
                                      detection_classes, m, n)

\* As target_loop, with the row and the column of a match exchanged.
RECURSIVE target_loop_transposed(_, _, _, _, _, _)
target_loop_transposed(i, result_matrix, true_classes, detection_classes, m, n) ==
    IF i > Len(true_classes)
    THEN result_matrix
    ELSE LET j == {k \in 1..Len(m) : m[k][1] = i}
             next ==
                 IF Len(m) > 0 /\ Cardinality(j) = 1
                 THEN increment(result_matrix,
                                detection_classes[m[CHOOSE k \in j : TRUE][2]],
                                true_classes[i])
                 ELSE increment(result_matrix, true_classes[i], n)
         IN  target_loop_transposed(i + 1, next, true_classes,
                                    detection_classes, m, n)

\* for i, true_class_value in enumerate(true_classes)
RECURSIVE target_loop(_, _, _, _, _, _)
target_loop(i, result_matrix, true_classes, detection_classes, m, n) ==
    IF i > Len(true_classes)
    THEN result_matrix
    ELSE LET j == {k \in 1..Len(m) : m[k][1] = i}
             next ==
                 IF Len(m) > 0 /\ Cardinality(j) = 1
                 THEN increment(result_matrix, true_classes[i],
                                detection_classes[m[CHOOSE k \in j : TRUE][2]])
                 ELSE increment(result_matrix, true_classes[i], n)
         IN  target_loop(i + 1, next, true_classes, detection_classes, m, n)

\* As detection_loop, counting the matched predictions too.
RECURSIVE detection_loop_every_prediction(_, _, _, _, _)
detection_loop_every_prediction(i, result_matrix, detection_classes, m, n) ==
    IF i > Len(detection_classes)
    THEN result_matrix
    ELSE detection_loop_every_prediction(
             i + 1, increment(result_matrix, n, detection_classes[i]),
             detection_classes, m, n)

\* for i, detection_class_value in enumerate(detection_classes)
RECURSIVE detection_loop(_, _, _, _, _)
detection_loop(i, result_matrix, detection_classes, m, n) ==
    IF i > Len(detection_classes)
    THEN result_matrix
    ELSE LET next ==
                 IF ~ \E k \in 1..Len(m) : m[k][2] = i
                 THEN increment(result_matrix, n, detection_classes[i])
                 ELSE result_matrix
         IN  detection_loop(i + 1, next, detection_classes, m, n)

\* x.astype(np.int16) of an index: the 0-based index wraps at 2^15.
astype_int16(i) == (((i - 1) + 32768) % 65536) - 32768 + 1

\* The two loops of evaluate_detection_batch over the match set.
count_matches(preds, tgts, n, conf_thr, rows) ==
    LET detection_batch_filtered == filter_confidence(preds, conf_thr)
        true_classes == Column(tgts, class_id_idx)
        detection_classes == Column(detection_batch_filtered, class_id_idx)
        m == [k \in 1..Len(rows) |->
                <<astype_int16(rows[k][1]), astype_int16(rows[k][2])>>]
        after_targets ==
            target_loop(1, zeros(n), true_classes, detection_classes, m, n)
    IN  detection_loop(1, after_targets, detection_classes, m, n)

evaluate_detection_batch(preds, tgts, n, conf_thr, iou_thr, t) ==
    count_matches(preds, tgts, n, conf_thr,
                  detection_matches(preds, tgts, conf_thr, iou_thr, t))

\* As add, keeping the second matrix alone.
add_overwrite(a, b) == b

\* matrix += the matrix of one image
add(a, b) ==
    [r \in DOMAIN a \cap DOMAIN b |->
        [c \in DOMAIN a[r] \cap DOMAIN b[r] |-> a[r][c] + b[r][c]]]

\* The matrix of ConfusionMatrix.from_tensors: the loop over
\* zip(targets, predictions), from image k on.
RECURSIVE zip_loop(_, _, _, _, _, _, _, _)
zip_loop(k, acc, preds, tgts, n, conf_thr, iou_thr, t) ==
    IF k > Min2(Len(tgts), Len(preds))
    THEN acc
    ELSE zip_loop(k + 1,
                  add(acc, evaluate_detection_batch(preds[k], tgts[k], n,
                                                    conf_thr, iou_thr, t)),
                  preds, tgts, n, conf_thr, iou_thr, t)

from_tensors_matrix(preds, tgts, n, conf_thr, iou_thr, t) ==
    zip_loop(1, zeros(n), preds, tgts, n, conf_thr, iou_thr, t)

----------------------------------------------------------------------------
\* MeanAveragePrecision.

\* np.linspace(0.5, 0.95, 10), in hundredths.
iou_levels == [k \in 1..10 |-> 45 + 5 * k]

\* As level_candidates, with iou > level.
level_candidates_strict(preds, tgts, level) ==
    LET N == Len(tgts)
        M == Len(preds)
        iou == box_iou_batch(Boxes(tgts), Boxes(preds))
        mask == [i \in 1..N |-> [j \in 1..M |->
                    /\ IoUAbove(iou[i][j], level)
                    /\ tgts[i][class_id_idx] = preds[j][class_id_idx]]]
    IN  stack(nonzero(mask, N, M), iou)

\* The rows _match_detection_batch stacks at one IoU level: the pairs of
\* a target and a prediction of the same class with iou >= level.
level_candidates(preds, tgts, level) ==
    LET N == Len(tgts)
        M == Len(preds)
        iou == box_iou_batch(Boxes(tgts), Boxes(preds))
        mask == [i \in 1..N |-> [j \in 1..M |->
                    /\ IoUAtLeast(iou[i][j], level)
                    /\ tgts[i][class_id_idx] = preds[j][class_id_idx]]]
    IN  stack(nonzero(mask, N, M), iou)

\* The match set of _match_detection_batch at one IoU level.
level_matches(preds, tgts, level, t) ==
    LET m == level_candidates(preds, tgts, level)
    IN  IF Len(m) > 1
        THEN LET m1 == Take(m, Reverse(argsort(Column(m, 3), t)))
                 m2 == Take(m1, unique_index(Column(m1, 2)))
                 m3 == Take(m2, unique_index(Column(m2, 1)))
             IN  m3
        ELSE m

\* Its match sets, one for each IoU level.
sweep_matches(preds, tgts, levels, t) ==
    [i \in 1..Len(levels) |-> level_matches(preds, tgts, levels[i], t)]

\* correct[matches[:, 1].astype(int), i] = True, for every level i.
mark_correct(npr, sweep) ==
    [p \in 1..npr |->
        [i \in 1..Len(sweep) |-> \E k \in 1..Len(sweep[i]) : sweep[i][k][2] = p]]

match_detection_batch(preds, tgts, levels, t) ==
    mark_correct(Len(preds), sweep_matches(preds, tgts, levels, t))

----------------------------------------------------------------------------
\* Numbers of the average precision: exact fractions <<numerator,
\* denominator>> in lowest terms, denominator positive, for the float64 of
\* the code.

RECURSIVE gcd(_, _)
gcd(a, b) == IF b = 0 THEN a ELSE gcd(b, a % b)

Fraction(n, d) ==
    LET g == gcd(IF n < 0 THEN -n ELSE n, d)
    IN  <<n \div g, d \div g>>

Zero == Fraction(0, 1)
One == Fraction(1, 1)

\* Sums over the least common denominator and products after cancelling,
\* which keeps the intermediate integers small.
a (+) b ==
    LET g == gcd(a[2], b[2])
    IN  Fraction(a[1] * (b[2] \div g) + b[1] * (a[2] \div g), (a[2] \div g) * b[2])
a (-) b == a (+) <<-b[1], b[2]>>
a (.) b ==
    LET x == Fraction(a[1], b[2])
        y == Fraction(b[1], a[2])
    IN  <<x[1] * y[1], x[2] * y[2]>>
\* a / b, for b > 0
a (/) b == a (.) <<b[2], b[1]>>
LessEq(a, b) == a[1] * b[2] <= b[1] * a[2]

\* np.linspace(0, 1, 101)
interpolated_recall_levels == [k \in 1..101 |-> Fraction(k - 1, 100)]

\* np.flip(np.maximum.accumulate(np.flip(p))): at each index, the largest
\* value at that index or after it.
max_accumulated(p) ==
    [k \in 1..Len(p) |->
        CHOOSE m \in {p[j] : j \in k..Len(p)} :
            \A j \in k..Len(p) : LessEq(p[j], m)]

\* np.interp(x, xp, fp) at one point x, for xp in ascending order: fp at
\* the last index j with xp[j] <= x when x = xp[j] or j is the last index,
\* the line from point j to point j + 1 otherwise; fp[0] left of xp[0].
interp(x, xp, fp) ==
    LET n == Len(xp)
        at == {j \in 1..n : LessEq(xp[j], x)}
        j == CHOOSE a \in at : \A b \in at : b <= a
    IN  IF at = {} THEN fp[1]
        ELSE IF j = n \/ xp[j] = x THEN fp[j]
        ELSE LET slope == (fp[j + 1] (-) fp[j]) (/) (xp[j + 1] (-) xp[j])
             IN  (slope (.) (x (-) xp[j])) (+) fp[j]

\* np.trapz(y, x): the sum of the trapezoids between the points lo and hi.
RECURSIVE trapz_between(_, _, _, _)
trapz_between(lo, hi, y, x) ==
    IF hi <= lo THEN Zero
    ELSE IF hi = lo + 1
    THEN ((x[hi] (-) x[lo]) (.) (y[hi] (+) y[lo])) (/) Fraction(2, 1)
    ELSE LET mid == (lo + hi) \div 2
         IN  trapz_between(lo, mid, y, x) (+) trapz_between(mid, hi, y, x)
trapz(y, x) == trapz_between(1, Len(x), y, x)

\* MeanAveragePrecision.compute_average_precision
compute_average_precision(recall, precision) ==
    LET extended_recall == <<Zero>> \o recall \o <<One>>
        extended_precision == <<One>> \o precision \o <<Zero>>
        max_accumulated_precision == max_accumulated(extended_precision)
        interpolated_precision ==
            [k \in 1..101 |-> interp(interpolated_recall_levels[k],
                                     extended_recall, max_accumulated_precision)]
    IN  trapz(interpolated_precision, interpolated_recall_levels)

\* np.unique(col): the distinct values of col in ascending order.
unique(col) ==
    LET vals == {col[k] : k \in 1..Len(col)}
        rank(v) == Cardinality({u \in vals : u < v}) + 1
    IN  [r \in 1..Cardinality(vals) |-> CHOOSE v \in vals : rank(v) = r]

\* a.mean() of a vector of fractions.
RECURSIVE sum(_)
sum(a) == IF Len(a) = 0 THEN Zero ELSE Head(a) (+) sum(Tail(a))
mean(a) == sum(a) (/) Fraction(Len(a), 1)

\* stats[0].any()
any(m) ==
    \E k \in 1..Len(m) : \E j \in 1..Len(m[k]) : m[k][j]

\* The precision and recall curves of one class at IoU level j, and their
\* average precision: rows is matches[valid], in descending confidence.
\* eps = 1e-16 is lost in num_targets + eps for num_targets >= 1.
class_average_precision(rows, j, num_targets) ==
    LET tp_pool == [k \in 1..Len(rows) |->
                       Cardinality({i \in 1..k : rows[i][j]})]
        fp_pool == [k \in 1..Len(rows) |->
                       Cardinality({i \in 1..k : ~rows[i][j]})]
        recall == [k \in 1..Len(rows) |-> Fraction(tp_pool[k], num_targets)]
        precision == [k \in 1..Len(rows) |->
                         Fraction(tp_pool[k], tp_pool[k] + fp_pool[k])]
    IN  compute_average_precision(recall, precision)

\* MeanAveragePrecision._average_precisions_per_class: one row for each
\* class of unique(true_batch_class_ids), one column for each IoU level.
\* np.argsort(-prediction_confidence) is of the default kind as well.
average_precisions_per_class(m, prediction_confidence, prediction_class_ids, true_batch_class_ids, t) ==
    LET sorted_confidences ==
            argsort([k \in 1..Len(prediction_confidence) |->
                        <<-prediction_confidence[k], 1>>], t)
        sorted_matches == Take(m, sorted_confidences)
        sorted_class_ids == Take(prediction_class_ids, sorted_confidences)
        unique_classes == unique(true_batch_class_ids)
        num_ious == Len(m[1])
    IN  [ci \in 1..Len(unique_classes) |->
            LET c == unique_classes[ci]
                valid == SelectSeq([k \in 1..Len(sorted_matches) |-> k],
                                   LAMBDA k : sorted_class_ids[k] = c)
                num_targets == Cardinality({k \in 1..Len(true_batch_class_ids) :
                                               true_batch_class_ids[k] = c})
            IN  IF Len(valid) = 0 \/ num_targets = 0
                THEN [j \in 1..num_ious |-> Zero]
                ELSE [j \in 1..num_ious |->
                         class_average_precision(Take(sorted_matches, valid),
                                                 j, num_targets)]]

\* As summary, with per_class_ap the table of the classes and IoU levels.
summary_with_table(s, table) ==
    IF Len(s) > 0 /\ any(s[1])
    THEN LET ap50 == Column(table, 1)
             ap75 == Column(table, 6)
             means == [ci \in 1..Len(table) |-> mean(table[ci])]
         IN  [map |-> mean(means), map50 |-> mean(ap50),
              map75 |-> mean(ap75), per_class_ap |-> table]
    ELSE [map |-> Zero, map50 |-> Zero, map75 |-> Zero, per_class_ap |-> << >>]

\* The end of MeanAveragePrecision.from_tensors on the concatenated stats s
\* and the table _average_precisions_per_class returned for them: the
\* fields of the instance it returns.  The name average_precisions holds
\* the mean of each class over the IoU levels by then.
summary(s, table) ==
    IF Len(s) > 0 /\ any(s[1])
    THEN LET ap50 == Column(table, 1)
             ap75 == Column(table, 6)
             means == [ci \in 1..Len(table) |-> mean(table[ci])]
         IN  [map |-> mean(means), map50 |-> mean(ap50),
              map75 |-> mean(ap75), per_class_ap |-> means]
    ELSE [map |-> Zero, map50 |-> Zero, map75 |-> Zero, per_class_ap |-> << >>]

\* The stats list after the loop of MeanAveragePrecision.from_tensors over
\* the images from k on, for arrays of the right shapes.
RECURSIVE stats_loop(_, _, _, _, _)
stats_loop(k, acc, preds, tgts, t) ==
    IF k > Min2(Len(tgts), Len(preds)) THEN acc
    ELSE LET true_batch == tgts[k]
             detection_batch == preds[k]
             nl == Len(true_batch)
             npr == Len(detection_batch)
             next ==
                 IF nl = 0 THEN acc
                 ELSE IF npr = 0
                 THEN Append(acc, << << >>, << >>, << >>,
                                    Column(true_batch, class_id_idx)>>)
                 ELSE Append(acc, <<match_detection_batch(detection_batch,
                                        true_batch, iou_levels, t),
                                    Column(detection_batch, conf_idx),
                                    Column(detection_batch, class_id_idx),
                                    Column(true_batch, class_id_idx)>>)
         IN  stats_loop(k + 1, next, preds, tgts, t)

\* The fields of the instance MeanAveragePrecision.from_tensors returns for
\* arrays of the right shapes.
from_tensors_summary(preds, tgts, t) ==
    LET each == stats_loop(1, << >>, preds, tgts, t)
        s == IF Len(each) = 0 THEN << >>
             ELSE [x \in 1..4 |-> concatenate(Column(each, x))]
        table == IF Len(s) > 0 /\ any(s[1])
                 THEN average_precisions_per_class(s[1], s[2], s[3], s[4], t)
                 ELSE << >>
    IN  summary(s, table)

----------------------------------------------------------------------------
\* Detections: the fields xyxy, class_id and confidence, the last two
\* optional.  An optional value is << >> for None and <<v>> for v.

None == << >>
Some(v) == <<v>>

\* detections_to_tensor: the exception it raises or the array it returns,
\* the rows (xyxy, class_id) or (xyxy, class_id, confidence).
detections_to_tensor(detections, with_confidence) ==
    IF detections.class_id = None
    THEN [exception |-> "ValueError", tensor |-> << >>]
    ELSE IF with_confidence /\ detections.confidence = None
    THEN [exception |-> "ValueError", tensor |-> << >>]
    ELSE [exception |-> "none",
          tensor |-> [k \in 1..Len(detections.xyxy) |->
                         detections.xyxy[k] \o <<detections.class_id[1][k]>>
                         \o (IF with_confidence
                             THEN <<detections.confidence[1][k]>>
                             ELSE << >>)]]

\* The loop of from_detections over zip(predictions, targets): the
\* exception of the first conversion that raises, or the two lists of
\* arrays.
detections_to_tensors(pds, tds) ==
    LET n == Min2(Len(pds), Len(tds))
        p == [k \in 1..n |-> detections_to_tensor(pds[k], TRUE)]
        t == [k \in 1..n |-> detections_to_tensor(tds[k], FALSE)]
    IN  IF \E k \in 1..n : p[k].exception # "none" \/ t[k].exception # "none"
        THEN [exception |-> "ValueError", prediction_tensors |-> << >>,
              target_tensors |-> << >>]
        ELSE [exception |-> "none",
              prediction_tensors |-> [k \in 1..n |-> p[k].tensor],
              target_tensors |-> [k \in 1..n |-> t[k].tensor]]

----------------------------------------------------------------------------
\* The calls.

TargetRows == {<<b[1], b[2], b[3], b[4], c>> : b \in BoxCatalogue, c \in Classes}
PredictionRows(confs) ==
    {<<r[1], r[2], r[3], r[4], r[5], f>> : r \in TargetRows, f \in confs}

\* No call of compute_average_precision on its own.
NoCurve ==
    /\ recall_curve = << >>
    /\ precision_curve = << >>
    /\ average_precision = << >>

Blank ==
    /\ pc = "start"
    /\ idx = 0
    /\ matrix = << >>
    /\ batch = << >>
    /\ matches = << >>
    /\ stats = << >>
    /\ correct = << >>
    /\ ap_matches = << >>
    /\ average_precisions = << >>
    /\ mean_average_precision = << >>
    /\ exception = "none"
    /\ prediction_detections = << >>
    /\ target_detections = << >>
    /\ dataset = << >>
    /\ callback = << >>
    /\ calls = << >>
    /\ NoCurve
    /\ earlier = << >>

\* One image: every pair of arrays of catalogue rows within the bounds.
SingleImage(confs) ==
    /\ \E p \in SeqsUpTo(PredictionRows(confs), MaxPredictions) : predictions = <<p>>
    /\ \E t \in SeqsUpTo(TargetRows, MaxTargets) : targets = <<t>>
    /\ num_classes = Cardinality(Classes)
    /\ ties \in TieOrders
    /\ Blank

Init == SingleImage(ConfCatalogue)

\* With a confidence below the threshold as well.
InitCM == SingleImage(WideConfCatalogue)

\* The images of the datasets: the two images of the example in the
\* docstring of from_tensors (coordinates in tenths), and images with no
\* rows, with no overlap above the threshold, with two predictions of
\* equal IoU and with a prediction at the confidence threshold.
ExampleImage1 ==
    [t |-> << <<0, 0, 30, 30, 1>>, <<20, 20, 50, 50, 1>>, <<60, 10, 80, 30, 2>> >>,
     p |-> << <<0, 0, 30, 30, 1, 90>>, <<1, 1, 30, 30, 0, 90>>,
              <<60, 10, 80, 30, 1, 80>>, <<10, 60, 20, 70, 1, 80>> >>]
ExampleImage2 ==
    [t |-> << <<10, 10, 20, 20, 2>> >>,
     p |-> << <<10, 10, 20, 20, 2, 80>> >>]
ImageCatalogue ==
    { ExampleImage1,
      ExampleImage2,
      [t |-> << >>, p |-> << >>],
      [t |-> << <<0, 0, 10, 1, 0>> >>, p |-> << <<0, 0, 20, 1, 1, 90>> >>],
      [t |-> << <<0, 0, 10, 1, 1>> >>,
       p |-> << <<0, 0, 10, 1, 0, 90>>, <<0, 0, 10, 1, 1, 90>> >>],
      [t |-> << <<0, 0, 10, 1, 0>> >>, p |-> << <<0, 0, 10, 1, 0, 30>> >>] }

\* A dataset of catalogue images, and a classes list of 2 or 3 names.
InitTensors ==
    /\ \E d \in SeqsUpTo(ImageCatalogue, MaxImages) :
          /\ predictions = [k \in 1..Len(d) |-> d[k].p]
          /\ targets = [k \in 1..Len(d) |-> d[k].t]
    /\ num_classes \in {Cardinality(Classes), Cardinality(Classes) + 1}
    /\ ties \in TieOrders
    /\ Blank

\* shape[1] of an array; an array with no rows has the columns of its kind.
shape1(array, columns) == IF Len(array) = 0 THEN columns ELSE Len(array[1])

\* As validate_input_tensors, without the comparison of the lengths.
validate_input_tensors_any_length(preds, tgts) ==
    IF Len(preds) > 0 /\ Len(tgts) > 0 /\ shape1(preds[1], 6) # 6 THEN "ValueError"
    ELSE IF Len(preds) > 0 /\ Len(tgts) > 0 /\ shape1(tgts[1], 5) # 5 THEN "ValueError"
    ELSE "none"

\* validate_input_tensors: the exception it raises, or "none".
validate_input_tensors(preds, tgts) ==
    IF Len(preds) # Len(tgts) THEN "ValueError"
    ELSE IF Len(preds) > 0 /\ shape1(preds[1], 6) # 6 THEN "ValueError"
    ELSE IF Len(preds) > 0 /\ shape1(tgts[1], 5) # 5 THEN "ValueError"
    ELSE "none"

\* evaluate_detection_batch raises IndexError at predictions[:, conf_idx]
\* or at targets[:, class_id_idx] on an array with too few columns.
evaluate_index_error(preds, tgts) ==
    \/ shape1(preds, 6) < conf_idx
    \/ shape1(tgts, 5) < class_id_idx

\* One iteration of the loop of MeanAveragePrecision.from_tensors raises on
\* an array with too few columns when it reads the missing column: the
\* classes of the targets when there are targets, the confidences of the
\* predictions when there are both.
match_index_error(preds, tgts) ==
    /\ Len(tgts) > 0
    /\ \/ shape1(tgts, 5) < class_id_idx
       \/ Len(preds) > 0 /\ shape1(preds, 6) < conf_idx

\* The exception of that iteration: targets[:, 4:5] == predictions[:, 4]
\* and its use as a mask fail to broadcast (ValueError) for targets without
\* a class column and several predictions unless the build's numpy makes
\* the comparison False; the column read fails (IndexError) otherwise.
match_exceptions(preds, tgts) ==
    IF shape1(tgts, 5) < class_id_idx /\ Len(preds) > 1
    THEN {"ValueError", "IndexError"}
    ELSE {"IndexError"}

\* ConfusionMatrix.from_tensors up to the loop.
CMFromTensors ==
    /\ pc \in {"start", "cm_from_tensors"}
    /\ IF validate_input_tensors(predictions, targets) = "none"
       THEN /\ pc' = "cm_loop"
            /\ idx' = 1
            /\ matrix' = zeros(num_classes)
            /\ UNCHANGED exception
       ELSE /\ pc' = "raised"
            /\ exception' = validate_input_tensors(predictions, targets)
            /\ UNCHANGED <<idx, matrix>>
    /\ UNCHANGED <<predictions, targets, num_classes, ties, batch, matches,
                   stats, correct, ap_matches, average_precisions,
                   mean_average_precision>>
    /\ UNCHANGED driver
    /\ UNCHANGED curve
    /\ UNCHANGED earlier

\* One iteration of for true_batch, detection_batch in zip(targets, predictions).
CMStep ==
    /\ pc = "cm_loop"
    /\ idx <= Min2(Len(targets), Len(predictions))
    /\ IF evaluate_index_error(predictions[idx], targets[idx])
       THEN /\ pc' = "raised"
            /\ exception' = "IndexError"
            /\ UNCHANGED <<matches, batch, matrix, idx>>
       ELSE /\ matches' = detection_matches(predictions[idx], targets[idx],
                            conf_threshold, iou_threshold, ties)
            /\ batch' = count_matches(predictions[idx], targets[idx], num_classes,
                            conf_threshold, matches')
            /\ matrix' = add(matrix, batch')
            /\ idx' = idx + 1
            /\ UNCHANGED <<pc, exception>>
    /\ UNCHANGED <<predictions, targets, num_classes, ties, stats, correct,
                   ap_matches, average_precisions, mean_average_precision>>
    /\ UNCHANGED driver
    /\ UNCHANGED curve
    /\ UNCHANGED earlier

CMReturn ==
    /\ pc = "cm_loop"
    /\ idx > Min2(Len(targets), Len(predictions))
    /\ pc' = "cm_done"
    /\ UNCHANGED <<predictions, targets, num_classes, ties, idx, matrix,
                   batch, matches, stats, correct, ap_matches,
                   average_precisions, mean_average_precision, exception>>
    /\ UNCHANGED driver
    /\ UNCHANGED curve
    /\ UNCHANGED earlier

\* MeanAveragePrecision.from_tensors up to the loop, on the arrays alone or
\* after their confusion matrix.
MAPFromTensors ==
    /\ pc \in {"start", "cm_done", "map_from_tensors"}
    /\ IF validate_input_tensors(predictions, targets) = "none"
       THEN /\ pc' = "map_loop"
            /\ idx' = 1
            /\ UNCHANGED exception
       ELSE /\ pc' = "raised"
            /\ exception' = validate_input_tensors(predictions, targets)
            /\ UNCHANGED idx
    /\ UNCHANGED <<predictions, targets, num_classes, ties, matrix, batch,
                   matches, stats, correct, ap_matches, average_precisions,
                   mean_average_precision>>
    /\ UNCHANGED driver
    /\ UNCHANGED curve
    /\ UNCHANGED earlier

\* As MAPStep, with the predictions of an image without targets appended
\* to the stats as well.
MAPStep_counting_predictions ==
    /\ pc = "map_loop"
    /\ idx <= Min2(Len(targets), Len(predictions))
    /\ LET true_batch == targets[idx]
           detection_batch == predictions[idx]
           nl == Len(true_batch)
           npr == Len(detection_batch)
           none == [p \in 1..npr |-> [i \in 1..Len(iou_levels) |-> FALSE]]
       IN  IF match_index_error(detection_batch, true_batch)
           THEN /\ pc' = "raised"
                /\ exception' \in match_exceptions(detection_batch, true_batch)
                /\ UNCHANGED <<correct, ap_matches, stats, idx>>
           ELSE
           /\ IF npr = 0
              THEN /\ correct' = none
                   /\ ap_matches' = << >>
                   /\ stats' = IF nl > 0
                               THEN Append(stats, <<none, << >>, << >>,
                                                    Column(true_batch, class_id_idx)>>)
                               ELSE stats
              ELSE IF nl > 0
              THEN /\ ap_matches' = sweep_matches(detection_batch, true_batch,
                                                  iou_levels, ties)
                   /\ correct' = mark_correct(npr, ap_matches')
                   /\ stats' = Append(stats, <<correct',
                                               Column(detection_batch, conf_idx),
                                               Column(detection_batch, class_id_idx),
                                               Column(true_batch, class_id_idx)>>)
              ELSE /\ correct' = none
                   /\ ap_matches' = << >>
                   /\ stats' = Append(stats, <<none,
                                               Column(detection_batch, conf_idx),
                                               Column(detection_batch, class_id_idx),
                                               << >> >>)
           /\ idx' = idx + 1
           /\ UNCHANGED <<pc, exception>>
    /\ UNCHANGED <<predictions, targets, num_classes, ties, matrix, batch,
                   matches, average_precisions, mean_average_precision>>
    /\ UNCHANGED driver
    /\ UNCHANGED curve
    /\ UNCHANGED earlier

\* As MAPStep, with nothing appended to the stats for an image without
\* predictions.
MAPStep_skipping_unpredicted ==
    /\ pc = "map_loop"
    /\ idx <= Min2(Len(targets), Len(predictions))
    /\ LET true_batch == targets[idx]
           detection_batch == predictions[idx]
           nl == Len(true_batch)
           npr == Len(detection_batch)
           none == [p \in 1..npr |-> [i \in 1..Len(iou_levels) |-> FALSE]]
       IN  IF match_index_error(detection_batch, true_batch)
           THEN /\ pc' = "raised"
                /\ exception' \in match_exceptions(detection_batch, true_batch)
                /\ UNCHANGED <<correct, ap_matches, stats, idx>>
           ELSE
           /\ IF npr = 0
              THEN /\ correct' = none
                   /\ ap_matches' = << >>
                   /\ stats' = stats
              ELSE IF nl > 0
              THEN /\ ap_matches' = sweep_matches(detection_batch, true_batch,
                                                  iou_levels, ties)
                   /\ correct' = mark_correct(npr, ap_matches')
                   /\ stats' = Append(stats, <<correct',
                                               Column(detection_batch, conf_idx),
                                               Column(detection_batch, class_id_idx),
                                               Column(true_batch, class_id_idx)>>)
              ELSE /\ correct' = none
                   /\ ap_matches' = << >>
                   /\ stats' = stats
           /\ idx' = idx + 1
           /\ UNCHANGED <<pc, exception>>
    /\ UNCHANGED <<predictions, targets, num_classes, ties, matrix, batch,
                   matches, average_precisions, mean_average_precision>>
    /\ UNCHANGED driver
    /\ UNCHANGED curve
    /\ UNCHANGED earlier

\* One iteration of its loop over zip(targets, predictions).
MAPStep ==
    /\ pc = "map_loop"
    /\ idx <= Min2(Len(targets), Len(predictions))
    /\ LET true_batch == targets[idx]
           detection_batch == predictions[idx]
           nl == Len(true_batch)
           npr == Len(detection_batch)
           none == [p \in 1..npr |-> [i \in 1..Len(iou_levels) |-> FALSE]]
       IN  IF match_index_error(detection_batch, true_batch)
           THEN /\ pc' = "raised"
                /\ exception' \in match_exceptions(detection_batch, true_batch)
                /\ UNCHANGED <<correct, ap_matches, stats, idx>>
           ELSE
           /\ IF npr = 0
              THEN /\ correct' = none
                   /\ ap_matches' = << >>
                   /\ stats' = IF nl > 0
                               THEN Append(stats, <<none, << >>, << >>,
                                                    Column(true_batch, class_id_idx)>>)
                               ELSE stats
              ELSE IF nl > 0
              THEN /\ ap_matches' = sweep_matches(detection_batch, true_batch,
                                                  iou_levels, ties)
                   /\ correct' = mark_correct(npr, ap_matches')
                   /\ stats' = Append(stats, <<correct',
                                               Column(detection_batch, conf_idx),
                                               Column(detection_batch, class_id_idx),
                                               Column(true_batch, class_id_idx)>>)
              ELSE /\ correct' = none
                   /\ ap_matches' = << >>
                   /\ stats' = stats
           /\ idx' = idx + 1
           /\ UNCHANGED <<pc, exception>>
    /\ UNCHANGED <<predictions, targets, num_classes, ties, matrix, batch,
                   matches, average_precisions, mean_average_precision>>
    /\ UNCHANGED driver
    /\ UNCHANGED curve
    /\ UNCHANGED earlier

\* The end of its loop: stats = [np.concatenate(x, 0) for x in zip(*stats)].
MAPReturn ==
    /\ pc = "map_loop"
    /\ idx > Min2(Len(targets), Len(predictions))
    /\ pc' = "map_done"
    /\ stats' = IF Len(stats) = 0
                THEN << >>
                ELSE [x \in 1..4 |-> concatenate(Column(stats, x))]
    /\ UNCHANGED <<predictions, targets, num_classes, ties, idx, matrix,
                   batch, matches, correct, ap_matches, average_precisions,
                   mean_average_precision, exception>>
    /\ UNCHANGED driver
    /\ UNCHANGED curve
    /\ UNCHANGED earlier

\* The average precisions of the concatenated stats and the instance
\* MeanAveragePrecision.from_tensors returns.
MAPAveragePrecisions ==
    /\ pc = "map_done"
    /\ pc' = "map_returned"
    /\ average_precisions' =
           IF Len(stats) > 0 /\ any(stats[1])
           THEN average_precisions_per_class(stats[1], stats[2], stats[3],
                                             stats[4], ties)
           ELSE << >>
    /\ mean_average_precision' = summary(stats, average_precisions')
    /\ UNCHANGED <<predictions, targets, num_classes, ties, idx, matrix,
                   batch, matches, stats, correct, ap_matches, exception>>
    /\ UNCHANGED driver
    /\ UNCHANGED curve
    /\ UNCHANGED earlier

\* from_detections of either metric, called at the position of the metric:
\* the conversions, then from_tensors at position there.
from_detections(there) ==
    /\ LET converted == detections_to_tensors(prediction_detections,
                                              target_detections)
       IN  IF converted.exception = "none"
           THEN /\ predictions' = converted.prediction_tensors
                /\ targets' = converted.target_tensors
                /\ pc' = there
                /\ UNCHANGED exception
           ELSE /\ pc' = "raised"
                /\ exception' = converted.exception
                /\ UNCHANGED <<predictions, targets>>
    /\ UNCHANGED <<num_classes, ties, idx, matrix, batch, matches, stats,
                   correct, ap_matches, average_precisions,
                   mean_average_precision>>
    /\ UNCHANGED driver
    /\ UNCHANGED curve
    /\ UNCHANGED earlier

\* ConfusionMatrix.from_detections
CMFromDetections ==
    /\ pc = "cm_from_detections"
    /\ from_detections("cm_from_tensors")

\* MeanAveragePrecision.from_detections
MAPFromDetections ==
    /\ pc = "map_from_detections"
    /\ from_detections("map_from_tensors")

\* As benchmark_step, going on to the next image when the callback raises.
benchmark_step_skipping ==
    /\ Len(calls) < Len(dataset.images)
    /\ LET item == dataset.images[Len(calls) + 1]
           outcome == callback[item.img]
       IN  /\ calls' = Append(calls, item.img)
           /\ IF outcome.raises
              THEN UNCHANGED <<prediction_detections, target_detections>>
              ELSE /\ prediction_detections' =
                          Append(prediction_detections, outcome.detections)
                   /\ target_detections' =
                          Append(target_detections,
                                 dataset.annotations[item.img_name])
    /\ UNCHANGED <<pc, exception>>
    /\ UNCHANGED <<predictions, targets, num_classes, ties, idx, matrix, batch,
                   matches, stats, correct, ap_matches, average_precisions,
                   mean_average_precision, dataset, callback>>
    /\ UNCHANGED curve
    /\ UNCHANGED earlier

\* As benchmark_step, with the annotations of the first image every time.
benchmark_step_first_annotations ==
    /\ Len(calls) < Len(dataset.images)
    /\ LET item == dataset.images[Len(calls) + 1]
           outcome == callback[item.img]
       IN  /\ calls' = Append(calls, item.img)
           /\ IF outcome.raises
              THEN /\ pc' = "raised"
                   /\ exception' = outcome.exception
                   /\ UNCHANGED <<prediction_detections, target_detections>>
              ELSE /\ prediction_detections' =
                          Append(prediction_detections, outcome.detections)
                   /\ target_detections' =
                          Append(target_detections,
                                 dataset.annotations[dataset.images[1].img_name])
                   /\ UNCHANGED <<pc, exception>>
    /\ UNCHANGED <<predictions, targets, num_classes, ties, idx, matrix, batch,
                   matches, stats, correct, ap_matches, average_precisions,
                   mean_average_precision, dataset, callback>>
    /\ UNCHANGED curve
    /\ UNCHANGED earlier

\* One iteration of for img_name, img in dataset.images.items() in
\* benchmark of either metric, at the position of the metric: the callback is invoked on img; what it
\* raises leaves benchmark, what it returns is appended to predictions and
\* dataset.annotations[img_name] to targets.
benchmark_step ==
    /\ Len(calls) < Len(dataset.images)
    /\ LET item == dataset.images[Len(calls) + 1]
           outcome == callback[item.img]
       IN  /\ calls' = Append(calls, item.img)
           /\ IF outcome.raises
              THEN /\ pc' = "raised"
                   /\ exception' = outcome.exception
                   /\ UNCHANGED <<prediction_detections, target_detections>>
              ELSE /\ prediction_detections' =
                          Append(prediction_detections, outcome.detections)
                   /\ target_detections' =
                          Append(target_detections,
                                 dataset.annotations[item.img_name])
                   /\ UNCHANGED <<pc, exception>>
    /\ UNCHANGED <<predictions, targets, num_classes, ties, idx, matrix, batch,
                   matches, stats, correct, ap_matches, average_precisions,
                   mean_average_precision, dataset, callback>>
    /\ UNCHANGED curve
    /\ UNCHANGED earlier

\* The end of that loop: return cls.from_detections(...).
benchmark_return(there) ==
    /\ Len(calls) = Len(dataset.images)
    /\ pc' = there
    /\ UNCHANGED <<predictions, targets, num_classes, ties, idx, matrix, batch,
                   matches, stats, correct, ap_matches, average_precisions,
                   mean_average_precision, exception>>
    /\ UNCHANGED driver
    /\ UNCHANGED curve
    /\ UNCHANGED earlier

\* ConfusionMatrix.benchmark
CMBenchmarkStep ==
    /\ pc = "cm_benchmark"
    /\ benchmark_step
CMBenchmarkReturn ==
    /\ pc = "cm_benchmark"
    /\ benchmark_return("cm_from_detections")

\* MeanAveragePrecision.benchmark
MAPBenchmarkStep ==
    /\ pc = "map_benchmark"
    /\ benchmark_step
MAPBenchmarkReturn ==
    /\ pc = "map_benchmark"
    /\ benchmark_return("map_from_detections")

NextCM ==
    \/ CMFromTensors
    \/ CMStep
    \/ CMReturn

NextMAP ==
    \/ MAPFromTensors
    \/ MAPStep
    \/ MAPReturn

Next ==
    \/ NextCM
    \/ NextMAP

\* One image, both metrics.
Spec == Init /\ [][Next]_vars
\* One image, the confusion matrix.
SpecCM == InitCM /\ [][NextCM]_vars
\* One image, the matching of the average precision.
SpecMAP == Init /\ [][NextMAP]_vars
\* A dataset, the confusion matrix.
SpecTensors == InitTensors /\ [][NextCM]_vars

NextAP ==
    \/ NextMAP
    \/ MAPAveragePrecisions

\* The images of the datasets of the mean average precision: those above
\* and one with two predictions of the class of one target, the first of
\* the lower IoU and the lower confidence.
APCatalogue ==
    ImageCatalogue \cup
    { [t |-> << <<0, 0, 10, 1, 0>> >>,
       p |-> << <<0, 0, 9, 1, 0, 30>>, <<0, 0, 10, 1, 0, 90>> >>] }

InitAP ==
    /\ \E d \in SeqsUpTo(APCatalogue, MaxImages) :
          /\ predictions = [k \in 1..Len(d) |-> d[k].p]
          /\ targets = [k \in 1..Len(d) |-> d[k].t]
    /\ num_classes = Cardinality(Classes) + 1
    /\ ties \in TieOrders
    /\ Blank

\* A dataset, the mean average precision.
SpecAP == InitAP /\ [][NextAP]_vars

\* One image of one class: copies of one target, and predictions of IoU
\* 9/10, 1 and 3/4 with it, each of its own confidence.
OrderTargets == {<<0, 0, 10, 1, 0>>}
OrderPredictions ==
    {<<0, 0, 9, 1, 0, 30>>, <<0, 0, 10, 1, 0, 90>>, <<1, 0, 12, 1, 0, 60>>}
InitOrder ==
    /\ \E p \in SeqsUpTo(OrderPredictions, MaxPredictions) : predictions = <<p>>
    /\ \E t \in SeqsUpTo(OrderTargets, MaxTargets) : targets = <<t>>
    /\ num_classes = Cardinality(Classes)
    /\ ties \in TieOrders
    /\ Blank

\* One image, the mean average precision.
SpecOrder == InitOrder /\ [][NextAP]_vars

\* Arrays of every shape: no rows, one row of the right columns, a column
\* short and a column more.
PredictionArrays ==
    { << >>,
      << <<0, 0, 10, 1, 0, 90>> >>,
      << <<0, 0, 10, 1, 0>> >>,
      << <<0, 0, 10, 1, 0, 90, 7>> >> }
TargetArrays ==
    { << >>,
      << <<0, 0, 10, 1, 0>> >>,
      << <<0, 0, 10, 1>> >>,
      << <<0, 0, 10, 1, 0, 7>> >> }

\* Lists of such arrays, each of its own length.
InitShapes ==
    /\ predictions \in SeqsUpTo(PredictionArrays, MaxImages)
    /\ targets \in SeqsUpTo(TargetArrays, MaxImages)
    /\ num_classes = Cardinality(Classes)
    /\ ties \in TieOrders
    /\ Blank

NextTensors ==
    \/ NextCM
    \/ NextAP

\* Both metrics on lists of arrays of every shape.
SpecShapes == InitShapes /\ [][NextTensors]_vars

\* Detections of one box or none, with and without class ids and
\* confidences.
PredictionDetections ==
    { [xyxy |-> << <<0, 0, 10, 1>> >>, class_id |-> Some(<<0>>),
       confidence |-> Some(<<90>>)],
      [xyxy |-> << >>, class_id |-> Some(<< >>), confidence |-> Some(<< >>)],
      [xyxy |-> << <<0, 0, 10, 1>> >>, class_id |-> None,
       confidence |-> Some(<<90>>)],
      [xyxy |-> << <<0, 0, 10, 1>> >>, class_id |-> Some(<<0>>),
       confidence |-> None] }
TargetDetections ==
    { [xyxy |-> << <<0, 0, 10, 1>> >>, class_id |-> Some(<<0>>),
       confidence |-> None],
      [xyxy |-> << <<0, 0, 9, 1>> >>, class_id |-> Some(<<1>>),
       confidence |-> Some(<<90>>)],
      [xyxy |-> << <<0, 0, 10, 1>> >>, class_id |-> None,
       confidence |-> None] }

\* No arrays yet, nothing computed.
BlankTensors ==
    /\ NoCurve
    /\ earlier = << >>
    /\ predictions = << >>
    /\ targets = << >>
    /\ num_classes = Cardinality(Classes)
    /\ ties \in TieOrders
    /\ idx = 0
    /\ matrix = << >>
    /\ batch = << >>
    /\ matches = << >>
    /\ stats = << >>
    /\ correct = << >>
    /\ ap_matches = << >>
    /\ average_precisions = << >>
    /\ mean_average_precision = << >>
    /\ exception = "none"

\* from_detections of either metric on two lists of Detections, each of its
\* own length.
InitDetections ==
    /\ prediction_detections \in SeqsUpTo(PredictionDetections, MaxImages)
    /\ target_detections \in SeqsUpTo(TargetDetections, MaxImages)
    /\ pc \in {"cm_from_detections", "map_from_detections"}
    /\ dataset = << >>
    /\ callback = << >>
    /\ calls = << >>
    /\ NoCurve
    /\ earlier = << >>
    /\ BlankTensors

NextDetections ==
    \/ CMFromDetections
    \/ MAPFromDetections
    \/ NextTensors

SpecDetections == InitDetections /\ [][NextDetections]_vars

\* The images of the datasets: names and pixels; the callback returns
\* Detections or raises one of two exceptions, by the pixels.
Images ==
    { [img_name |-> "a", img |-> 1],
      [img_name |-> "b", img |-> 2],
      [img_name |-> "b", img |-> 1] }
CallbackExceptions == {"RuntimeError", "KeyError"}
Outcomes ==
    { [raises |-> FALSE, exception |-> "none", detections |-> d] :
          d \in {p \in PredictionDetections : p.confidence # None} }
    \cup
    { [raises |-> TRUE, exception |-> e,
       detections |-> [xyxy |-> << >>, class_id |-> None, confidence |-> None]] :
          e \in CallbackExceptions }

\* benchmark of either metric on a dataset of images of distinct names, in
\* the order of dataset.images, with annotations for every name.
InitBenchmark ==
    /\ \E images \in SeqsUpTo(Images, MaxImages) :
       \E annotations \in [{"a", "b"} ->
                               {t \in TargetDetections : t.class_id # None}] :
          /\ \A i, j \in 1..Len(images) :
                 images[i].img_name = images[j].img_name => i = j
          /\ dataset = [classes |-> <<"c0", "c1">>, images |-> images,
                        annotations |-> annotations]
    /\ callback \in [{1, 2} -> Outcomes]
    /\ calls = << >>
    /\ prediction_detections = << >>
    /\ target_detections = << >>
    /\ pc \in {"cm_benchmark", "map_benchmark"}
    /\ BlankTensors

\* A call of compute_average_precision.
ComputeAveragePrecision ==
    /\ pc = "curve"
    /\ average_precision' = <<compute_average_precision(recall_curve, precision_curve)>>
    /\ pc' = "curve_done"
    /\ UNCHANGED <<predictions, targets, num_classes, ties, idx, matrix, batch,
                   matches, stats, correct, ap_matches, average_precisions,
                   mean_average_precision, exception, recall_curve,
                   precision_curve>>
    /\ UNCHANGED driver
    /\ UNCHANGED earlier

NextBenchmark ==
    \/ CMBenchmarkStep
    \/ CMBenchmarkReturn
    \/ MAPBenchmarkStep
    \/ MAPBenchmarkReturn
    \/ NextDetections

SpecBenchmark == InitBenchmark /\ [][NextBenchmark]_vars

\* Curves of at most MaxCurve points: recalls in ascending order and
\* precisions, each 0, 1/2 or 1.
MaxCurve == 2
CurveValues == {Zero, Fraction(1, 2), One}
InitCurve ==
    /\ \E n \in 0..MaxCurve :
          /\ recall_curve \in [1..n -> CurveValues]
          /\ precision_curve \in [1..n -> CurveValues]
          /\ \A k \in 1..(n - 1) : LessEq(recall_curve[k], recall_curve[k + 1])
    /\ average_precision = << >>
    /\ earlier = << >>
    /\ pc = "curve"
    /\ prediction_detections = << >>
    /\ target_detections = << >>
    /\ dataset = << >>
    /\ callback = << >>
    /\ calls = << >>
    /\ predictions = << >>
    /\ targets = << >>
    /\ num_classes = Cardinality(Classes)
    /\ ties \in TieOrders
    /\ idx = 0
    /\ matrix = << >>
    /\ batch = << >>
    /\ matches = << >>
    /\ stats = << >>
    /\ correct = << >>
    /\ ap_matches = << >>
    /\ average_precisions = << >>
    /\ mean_average_precision = << >>
    /\ exception = "none"

\* compute_average_precision on its own.
SpecCurve == InitCurve /\ [][ComputeAveragePrecision]_vars

\* s with v inserted at position k.
Insert(s, k, v) == SubSeq(s, 1, k - 1) \o <<v>> \o SubSeq(s, k, Len(s))

\* The images of the datasets an image is added to: a target with its
\* exact prediction, two targets without predictions, and a target with a
\* prediction of IoU 9/10 before its exact prediction.
FrameCatalogue ==
    { [t |-> << <<0, 0, 10, 1, 0>> >>, p |-> << <<0, 0, 10, 1, 0, 60>> >>],
      [t |-> << <<0, 0, 10, 1, 0>>, <<1, 0, 12, 1, 1>> >>, p |-> << >>],
      [t |-> << <<0, 0, 10, 1, 1>> >>,
       p |-> << <<0, 0, 9, 1, 1, 30>>, <<0, 0, 10, 1, 1, 90>> >>] }

\* The predictions of the image that is added.
FramePredictions == {<<0, 0, 10, 1, 0, 90>>, <<0, 0, 10, 1, 1, 30>>}

InitFrame ==
    /\ \E d \in SeqsUpTo(FrameCatalogue, MaxImages) :
          /\ predictions = [k \in 1..Len(d) |-> d[k].p]
          /\ targets = [k \in 1..Len(d) |-> d[k].t]
    /\ num_classes = Cardinality(Classes)
    /\ ties \in TieOrders
    /\ Blank

\* The caller of MeanAveragePrecision.from_tensors, after the call has
\* returned: it keeps the instance, adds an image without targets to the
\* dataset at any position and calls from_tensors again.
AddImageWithoutTargets ==
    /\ pc = "map_returned"
    /\ earlier = << >>
    /\ \E k \in 1..(Len(targets) + 1) :
       \E p \in SeqsUpTo(FramePredictions, MaxPredictions) :
          /\ predictions' = Insert(predictions, k, p)
          /\ targets' = Insert(targets, k, << >>)
    /\ earlier' = <<mean_average_precision>>
    /\ pc' = "map_from_tensors"
    /\ idx' = 0
    /\ stats' = << >>
    /\ correct' = << >>
    /\ ap_matches' = << >>
    /\ average_precisions' = << >>
    /\ mean_average_precision' = << >>
    /\ UNCHANGED <<num_classes, ties, matrix, batch, matches, exception>>
    /\ UNCHANGED driver
    /\ UNCHANGED curve

NextFrame ==
    \/ NextAP
    \/ AddImageWithoutTargets

\* A dataset, the mean average precision, and the dataset with one more
\* image.
SpecFrame == InitFrame /\ [][NextFrame]_vars

----------------------------------------------------------------------------
\* Properties.

\* The image the loop evaluated last, once it has evaluated one.
EvaluatedCM == pc \in {"cm_loop", "cm_done"} /\ idx > 1
EvaluatedMAP == pc \in {"map_loop", "map_done"} /\ idx > 1
LastPredictions == predictions[idx - 1]
LastTargets == targets[idx - 1]
LastFiltered == filter_confidence(LastPredictions, conf_threshold)
LastCandidates ==
    detection_candidates(LastPredictions, LastTargets, conf_threshold, iou_threshold)

\* No target index and no prediction index in two rows of a match set.
OneToOne(m) ==
    \A a, b \in 1..Len(m) :
        a # b => m[a][1] # m[b][1] /\ m[a][2] # m[b][2]

\* C1: the match set of the confusion matrix and the match set of the
\* average precision at every IoU level use each target index at most once
\* and each prediction index at most once.
C1_MatchSetsOneToOne ==
    /\ OneToOne(matches)
    /\ \A i \in 1..Len(ap_matches) : OneToOne(ap_matches[i])

\* Both matchings have run on an image where candidate pairs compete: the
\* confusion matrix dropped candidates, and so did the average precision
\* at its first level.
C1_Witness ==
    /\ EvaluatedMAP
    /\ Len(matches) > 0
    /\ Len(matches) < Len(LastCandidates)
    /\ Len(ap_matches) = Len(iou_levels)
    /\ Len(ap_matches[1]) > 0
    /\ Len(ap_matches[1]) <
           Len(level_candidates(LastPredictions, LastTargets, iou_levels[1]))

\* The sum of all cells of a square matrix indexed from 0.
RECURSIVE SumRow(_, _)
SumRow(row, c) == IF c < 0 THEN 0 ELSE row[c] + SumRow(row, c - 1)
RECURSIVE SumRows(_, _, _)
SumRows(m, r, n) == IF r < 0 THEN 0 ELSE SumRow(m[r], n) + SumRows(m, r - 1, n)
SumCells(m, n) == SumRows(m, n, n)

\* C2: the cells of the matrix of one image sum to the number of targets
\* plus the number of predictions above the confidence threshold minus the
\* number of matched pairs.
C2_CellSum ==
    EvaluatedCM =>
        SumCells(batch, num_classes) =
            Len(LastTargets) + Len(LastFiltered) - Len(matches)

\* An image with a matched pair, a target without a match and a
\* prediction above the threshold without a match.
C2_Witness ==
    /\ EvaluatedCM
    /\ Len(matches) = 1
    /\ Len(LastTargets) = 2
    /\ Len(LastPredictions) = 2
    /\ Len(LastFiltered) = 2
    /\ SumCells(batch, num_classes) = 3

\* The classes of the last image's targets and of its predictions above
\* the confidence threshold, the rows the match set indexes.
LastTrueClasses == Column(LastTargets, class_id_idx)
LastDetectionClasses == Column(LastFiltered, class_id_idx)
MatchedTargets == {matches[k][1] : k \in 1..Len(matches)}
MatchedDetections == {matches[k][2] : k \in 1..Len(matches)}
\* The class of the prediction matched to target i.
MatchedClass(i) ==
    LastDetectionClasses[matches[CHOOSE k \in 1..Len(matches) : matches[k][1] = i][2]]

\* C4: every target counts in exactly one cell of its class's row: the
\* column of its matched prediction's class if it is in the match set,
\* the background column if it is not.
C4_TargetCells ==
    EvaluatedCM =>
        \A r \in 0..(num_classes - 1) :
            /\ \A c \in 0..(num_classes - 1) :
                  batch[r][c] = Cardinality({i \in MatchedTargets :
                                    /\ LastTrueClasses[i] = r
                                    /\ MatchedClass(i) = c})
            /\ batch[r][num_classes] =
                  Cardinality({i \in 1..Len(LastTargets) :
                                    /\ LastTrueClasses[i] = r
                                    /\ i \notin MatchedTargets})

\* A target matched to a prediction of another class, beside a target
\* with no match.
C4_Witness ==
    /\ EvaluatedCM
    /\ \E i \in MatchedTargets : MatchedClass(i) # LastTrueClasses[i]
    /\ \E i \in 1..Len(LastTargets) : i \notin MatchedTargets

\* C5: the background row counts, for each class, the predictions above
\* the confidence threshold that are in no match, and nothing else.
C5_BackgroundRow ==
    EvaluatedCM =>
        /\ \A c \in 0..(num_classes - 1) :
              batch[num_classes][c] =
                  Cardinality({j \in 1..Len(LastFiltered) :
                                    /\ LastDetectionClasses[j] = c
                                    /\ j \notin MatchedDetections})
        /\ batch[num_classes][num_classes] = 0

\* A matched prediction beside an unmatched one of the same class.
C5_Witness ==
    /\ EvaluatedCM
    /\ \E j \in MatchedDetections :
          \E u \in (1..Len(LastFiltered)) \ MatchedDetections :
              LastDetectionClasses[j] = LastDetectionClasses[u]

\* C6: the matrix of an image is the matrix of its predictions with
\* confidence above the threshold alone, counted with no threshold: a
\* prediction at or below the threshold is in no match and in no cell.
C6_LowConfidenceDropped ==
    EvaluatedCM =>
        /\ \A j \in 1..Len(LastFiltered) : LastFiltered[j][conf_idx] > conf_threshold
        /\ batch = evaluate_detection_batch(
                        SelectSeq(LastPredictions,
                                  LAMBDA row : ~ (row[conf_idx] <= conf_threshold)),
                        LastTargets, num_classes, -1, iou_threshold, ties)

\* A prediction at the threshold and one below it, each on the box of a
\* target: both targets are counted in the background column.
C6_Witness ==
    /\ EvaluatedCM
    /\ Len(LastTargets) = 2
    /\ \E a, b \in 1..Len(LastPredictions) :
          /\ LastPredictions[a][conf_idx] = conf_threshold
          /\ LastPredictions[b][conf_idx] < conf_threshold
          /\ Boxes(LastPredictions)[a] = Boxes(LastTargets)[1]
          /\ Boxes(LastPredictions)[b] = Boxes(LastTargets)[2]
    /\ Len(matches) = 0
    /\ SumCells(batch, num_classes) = 2

\* The IoU of target i and of prediction j among those above the
\* confidence threshold.
LastIoU(i, j) == box_iou(LastTargets[i], LastFiltered[j])

\* C7: every matched pair has an IoU strictly greater than iou_threshold;
\* a pair whose IoU equals it, with no other pair of its target or of its
\* prediction above it, leaves the target in the background column and
\* the prediction in the background row.
C7_StrictIoUThreshold ==
    EvaluatedCM =>
        /\ \A k \in 1..Len(matches) :
              /\ IoUAbove(matches[k][3], iou_threshold)
              /\ matches[k][3] = LastIoU(matches[k][1], matches[k][2])
        /\ \A i \in 1..Len(LastTargets) : \A j \in 1..Len(LastFiltered) :
              ( /\ IoUAtLeast(LastIoU(i, j), iou_threshold)
                /\ ~ IoUAbove(LastIoU(i, j), iou_threshold)
                /\ \A q \in 1..Len(LastFiltered) :
                      ~ IoUAbove(LastIoU(i, q), iou_threshold)
                /\ \A q \in 1..Len(LastTargets) :
                      ~ IoUAbove(LastIoU(q, j), iou_threshold) )
              => /\ i \notin MatchedTargets
                 /\ j \notin MatchedDetections
                 /\ batch[LastTrueClasses[i]][num_classes] >= 1
                 /\ batch[num_classes][LastDetectionClasses[j]] >= 1

\* One target and one prediction whose IoU is the threshold exactly:
\* one count in the background column and one in the background row.
C7_Witness ==
    /\ EvaluatedCM
    /\ Len(LastTargets) = 1
    /\ Len(LastFiltered) = 1
    /\ LastIoU(1, 1)[1] * 100 = iou_threshold * LastIoU(1, 1)[2]
    /\ batch[LastTrueClasses[1]][num_classes] = 1
    /\ batch[num_classes][LastDetectionClasses[1]] = 1

\* The IoU of target i and prediction j of the last image, and whether
\* the pair has one class and an IoU of at least level l of the sweep.
LastAPIoU(i, j) == box_iou(LastTargets[i], LastPredictions[j])
Eligible(i, j, l) ==
    /\ LastTargets[i][class_id_idx] = LastPredictions[j][class_id_idx]
    /\ LastAPIoU(i, j)[1] * 100 >= iou_levels[l] * LastAPIoU(i, j)[2]

\* C8: a prediction marked correct at a level has a target of its class
\* with an IoU of at least the level; and a pair of one class with an IoU
\* of at least the level, equal to it included, marks its prediction
\* correct when no other such pair has its target or its prediction.
C8_ClassAwareInclusiveLevel ==
    EvaluatedMAP =>
        \A j \in 1..Len(LastPredictions) : \A l \in 1..Len(iou_levels) :
            /\ correct[j][l] => \E i \in 1..Len(LastTargets) : Eligible(i, j, l)
            /\ \A i \in 1..Len(LastTargets) :
                  ( /\ Eligible(i, j, l)
                    /\ \A q \in 1..Len(LastPredictions) : q # j => ~ Eligible(i, q, l)
                    /\ \A q \in 1..Len(LastTargets) : q # i => ~ Eligible(q, j, l) )
                  => correct[j][l]

\* A prediction whose only target of its class has an IoU of 0.5 with it:
\* correct at the level 0.5 and not at the level 0.55; beside it a
\* prediction of another class on the box of a target, correct nowhere.
C8_Witness ==
    /\ EvaluatedMAP
    /\ \E j \in 1..Len(LastPredictions) : \E i \in 1..Len(LastTargets) :
          /\ Eligible(i, j, 1)
          /\ LastAPIoU(i, j)[1] * 100 = iou_levels[1] * LastAPIoU(i, j)[2]
          /\ correct[j][1]
          /\ ~ correct[j][2]
    /\ \E j \in 1..Len(LastPredictions) : \E i \in 1..Len(LastTargets) :
          /\ Boxes(LastPredictions)[j] = Boxes(LastTargets)[i]
          /\ \A l \in 1..Len(iou_levels) : ~ correct[j][l]

\* The matrix evaluate_detection_batch returns for image k alone.
ImageMatrix(k) ==
    evaluate_detection_batch(predictions[k], targets[k], num_classes,
                             conf_threshold, iou_threshold, ties)

Orders(n) ==
    {f \in [1..n -> 1..n] : \A a, b \in 1..n : a # b => f[a] # f[b]}
Permute(s, f) == [k \in 1..Len(s) |-> s[f[k]]]

\* The sum of cell (r, c) over the first k matrices of ms.
RECURSIVE CellTotal(_, _, _, _)
CellTotal(ms, k, r, c) ==
    IF k = 0 THEN 0 ELSE ms[k][r][c] + CellTotal(ms, k - 1, r, c)
TotalOf(ms, n) ==
    [r \in 0..n |-> [c \in 0..n |-> CellTotal(ms, Len(ms), r, c)]]

\* C3: the matrix from_tensors returns is, cell by cell, the sum of the
\* matrices of the images alone, and it is the matrix from_tensors returns
\* for the images in any other order.
C3_SumOfImages ==
    pc = "cm_done" =>
        /\ matrix = TotalOf([k \in 1..Len(targets) |-> ImageMatrix(k)],
                             num_classes)
        /\ \A f \in Orders(Len(targets)) :
              matrix = from_tensors_matrix(Permute(predictions, f),
                                           Permute(targets, f), num_classes,
                                           conf_threshold, iou_threshold, ties)

\* from_tensors has returned for two images with different matrices,
\* neither of them zero.
C3_Witness ==
    /\ pc = "cm_done"
    /\ Len(targets) = 2
    /\ ImageMatrix(1) # ImageMatrix(2)
    /\ ImageMatrix(1) # zeros(num_classes)
    /\ ImageMatrix(2) # zeros(num_classes)

\* The example of the docstring of from_tensors.
IsExample ==
    /\ targets = <<ExampleImage1.t, ExampleImage2.t>>
    /\ predictions = <<ExampleImage1.p, ExampleImage2.p>>
ExampleMatrix ==
    LET rows == << <<0, 0, 0, 0>>, <<0, 1, 0, 1>>, <<0, 1, 1, 0>>, <<1, 1, 0, 0>> >>
    IN  [r \in 0..3 |-> [c \in 0..3 |-> rows[r + 1][c + 1]]]

\* C9 as stated: the example with 2 classes yields the 4 x 4 matrix.
C9_ExampleTwoClasses ==
    (pc = "cm_done" /\ IsExample /\ num_classes = 2) => matrix = ExampleMatrix

\* C9: the example with the default thresholds and a classes list of 3
\* names (the class ids 0, 1 and 2 of its rows) yields the 4 x 4 matrix
\* [[0,0,0,0],[0,1,0,1],[0,1,1,0],[1,1,0,0]].
C9_ExampleThreeClasses ==
    (pc = "cm_done" /\ IsExample /\ num_classes = 3) => matrix = ExampleMatrix

\* from_tensors has returned for the example with 3 classes.
C9_Witness ==
    /\ pc = "cm_done"
    /\ IsExample
    /\ num_classes = 3
    /\ idx = 3

\* The last image's matrix for its predictions in the order f.
PermutedMatrix(f) ==
    evaluate_detection_batch(Permute(LastPredictions, f), LastTargets,
                             num_classes, conf_threshold, iou_threshold, ties)

\* C10 as stated: every order of the predictions of an image gives the
\* same matrix, equal IoUs included.
C10_AnyOrderSameMatrix ==
    EvaluatedCM =>
        \A f \in Orders(Len(LastPredictions)) : PermutedMatrix(f) = batch

\* No two candidate pairs with one target or one prediction in common
\* have equal IoU.
NoCompetingTies ==
    \A a, b \in 1..Len(LastCandidates) :
        ( /\ a # b
          /\ \/ LastCandidates[a][1] = LastCandidates[b][1]
             \/ LastCandidates[a][2] = LastCandidates[b][2] )
        => ~ IoUEq(LastCandidates[a][3], LastCandidates[b][3])

\* C10: every order of the predictions of an image gives the same matrix
\* when no two candidate pairs that share a target or a prediction have
\* equal IoU.
C10_AnyOrderSameMatrixWithoutTies ==
    (EvaluatedCM /\ NoCompetingTies) =>
        \A f \in Orders(Len(LastPredictions)) : PermutedMatrix(f) = batch

\* Two predictions of different classes compete for a target with
\* different IoUs, and one of them is dropped.
C10_Witness ==
    /\ EvaluatedCM
    /\ NoCompetingTies
    /\ Len(LastFiltered) = 2
    /\ LastDetectionClasses[1] # LastDetectionClasses[2]
    /\ \E a, b \in 1..Len(LastCandidates) :
          /\ a # b
          /\ LastCandidates[a][1] = LastCandidates[b][1]
    /\ Len(matches) < Len(LastCandidates)

----------------------------------------------------------------------------
\* C11: for every permutation of the rows of an image's prediction array,
\* MeanAveragePrecision.from_tensors returns the same per-class AP values
\* and the same map, map50 and map75.
ReturnedMAP == pc = "map_returned"

C11_AnyOrderSameAP ==
    ReturnedMAP =>
        \A f \in Orders(Len(predictions[1])) :
            from_tensors_summary(<<Permute(predictions[1], f)>>, targets, ties)
                = mean_average_precision

----------------------------------------------------------------------------
\* C12: from_tensors of either metric, called with a predictions list and a
\* targets list of different lengths, raises an error before any image is
\* evaluated and returns no result.
NothingEvaluated ==
    /\ idx = 0
    /\ matrix = << >>
    /\ batch = << >>
    /\ stats = << >>
    /\ correct = << >>
    /\ average_precisions = << >>
    /\ mean_average_precision = << >>

C12_DifferentLengthsRaise ==
    (Len(predictions) # Len(targets) /\ pc # "start") =>
        /\ pc = "raised"
        /\ exception = "ValueError"
        /\ NothingEvaluated

\* A list of two predictions and a list of one target, both of the right
\* shapes, were passed and the call raised.
C12_Witness ==
    /\ Len(predictions) = 2
    /\ Len(targets) = 1
    /\ validate_input_tensors(SubSeq(predictions, 1, 1), targets) = "none"
    /\ pc = "raised"
    /\ exception = "ValueError"

----------------------------------------------------------------------------
\* C13: if the prediction array of any image, at any position of the list,
\* has a column count other than 6, or the target array of any image a
\* column count other than 5, from_tensors reports the violation before any
\* per-image computation and returns no result.
WrongColumns ==
    \/ \E k \in 1..Len(predictions) : shape1(predictions[k], 6) # 6
    \/ \E k \in 1..Len(targets) : shape1(targets[k], 5) # 5

C13_EveryImageShapeChecked ==
    (WrongColumns /\ pc # "start") =>
        /\ pc = "raised"
        /\ NothingEvaluated

----------------------------------------------------------------------------
\* C14: from_detections of either metric raises a ValueError and returns no
\* metric when any prediction or target Detections has class_id None or any
\* prediction Detections has confidence None; a target Detections with
\* confidence None is accepted.
MissingField ==
    \/ \E k \in 1..Len(prediction_detections) :
          \/ prediction_detections[k].class_id = None
          \/ prediction_detections[k].confidence = None
    \/ \E k \in 1..Len(target_detections) :
          target_detections[k].class_id = None

C14_MissingFieldRaises ==
    pc \notin {"cm_from_detections", "map_from_detections"} =>
        IF MissingField
        THEN /\ pc = "raised"
             /\ exception = "ValueError"
             /\ predictions = << >>
             /\ targets = << >>
             /\ NothingEvaluated
        ELSE pc # "raised"

----------------------------------------------------------------------------
\* C15: benchmark of either metric invokes the callback exactly once for
\* each image of the dataset, in the order of the dataset's images, and
\* pairs the k-th result with the annotations of the k-th image.
InBenchmarkLoop == pc \in {"cm_benchmark", "map_benchmark"}

C15_CallbackOncePerImageInOrder ==
    /\ Len(calls) <= Len(dataset.images)
    /\ \A k \in 1..Len(calls) : calls[k] = dataset.images[k].img
    /\ Len(prediction_detections) = Len(target_detections)
    /\ \A k \in 1..Len(prediction_detections) :
          /\ prediction_detections[k] = callback[dataset.images[k].img].detections
          /\ target_detections[k] = dataset.annotations[dataset.images[k].img_name]
    /\ (~InBenchmarkLoop /\ exception \notin CallbackExceptions) =>
          /\ Len(calls) = Len(dataset.images)
          /\ Len(prediction_detections) = Len(dataset.images)

\* The loop is over for a dataset of two images of different pixels and
\* annotations, on which the callback returned different Detections.
C15_Witness ==
    /\ pc = "cm_from_detections"
    /\ Len(dataset.images) = 2
    /\ Len(calls) = 2
    /\ calls[1] # calls[2]
    /\ prediction_detections[1] # prediction_detections[2]
    /\ target_detections[1] # target_detections[2]

----------------------------------------------------------------------------
\* C16: if the callback raises on some image during benchmark, the same
\* exception reaches the caller, the callback is not invoked for any later
\* image, the image is not skipped or retried, and no metric is returned.
Raising ==
    {k \in 1..Len(dataset.images) : callback[dataset.images[k].img].raises}

C16_CallbackExceptionPropagates ==
    (Raising # {} /\ ~InBenchmarkLoop) =>
        /\ pc = "raised"
        /\ exception = callback[dataset.images[MinOf(Raising)].img].exception
        /\ calls = [k \in 1..MinOf(Raising) |-> dataset.images[k].img]
        /\ predictions = << >>
        /\ targets = << >>
        /\ NothingEvaluated

\* The callback raised on the first of two images, and would have raised
\* another exception on the second.
C16_Witness ==
    /\ pc = "raised"
    /\ Len(dataset.images) = 2
    /\ calls = <<dataset.images[1].img>>
    /\ exception = "KeyError"
    /\ callback[dataset.images[2].img].raises
    /\ callback[dataset.images[2].img].exception = "RuntimeError"

----------------------------------------------------------------------------
\* C17: when at least one prediction is correct somewhere in the dataset,
\* per_class_ap of MeanAveragePrecision.from_tensors is a table with one row
\* for each class id observed among the targets, in ascending class id
\* order, and one column for each of the 10 IoU levels.
AnyCorrect == Len(stats) > 0 /\ any(stats[1])
Evaluated == 1..Min2(Len(targets), Len(predictions))
TargetClasses ==
    {targets[k][i][class_id_idx] : <<k, i>> \in
        {ki \in Evaluated \X (1..MaxTargets + 2) : ki[2] <= Len(targets[ki[1]])}}
PredictionsOf(c) ==
    {ki \in Evaluated \X (1..MaxPredictions + 2) :
        /\ ki[2] <= Len(predictions[ki[1]])
        /\ Len(targets[ki[1]]) > 0
        /\ predictions[ki[1]][ki[2]][class_id_idx] = c}
per_class_ap == mean_average_precision.per_class_ap

----------------------------------------------------------------------------
\* C18: compute_average_precision called with the perfect curve
\* recall = [0, 1], precision = [1, 1] returns 1.0.
C18_PerfectCurveIsOne ==
    (pc = "curve_done" /\ recall_curve = <<Zero, One>>
        /\ precision_curve = <<One, One>>) =>
        average_precision = <<One>>

----------------------------------------------------------------------------
\* C19: compute_average_precision called with an empty curve (recall and
\* precision arrays with no detections) returns 0.0.
C19_EmptyCurveIsZero ==
    (pc = "curve_done" /\ recall_curve = << >> /\ precision_curve = << >>) =>
        average_precision = <<Zero>>

----------------------------------------------------------------------------
\* C20: MeanAveragePrecision.from_tensors on the two images of the example
\* yields map approximately 0.2899 (0.2899 to four decimals).
C20_ExampleMAP ==
    (ReturnedMAP /\ IsExample) =>
        /\ 5797 * mean_average_precision.map[2] <= 20000 * mean_average_precision.map[1]
        /\ 20000 * mean_average_precision.map[1] <= 5799 * mean_average_precision.map[2]

----------------------------------------------------------------------------
\* C21: in MeanAveragePrecision.from_tensors an image with zero
\* predictions and N > 0 targets contributes one all-false row of the
\* correct matrix for each target (N rows) to the stacked statistics, so
\* that its targets are counted as false negatives.
InMAPLoop == pc = "map_loop" /\ idx > 1
Unpredicted == Len(LastPredictions) = 0 /\ Len(LastTargets) > 0
WithTargets == {k \in 1..Min2(Len(targets), Len(predictions)) : Len(targets[k]) > 0}
RECURSIVE Total(_, _)
Total(arrays, S) ==
    IF S = {} THEN 0
    ELSE LET k == CHOOSE k \in S : TRUE
         IN  Len(arrays[k]) + Total(arrays, S \ {k})

\* C21 as stated.
C21_FalseRowPerTarget ==
    (InMAPLoop /\ Unpredicted) =>
        /\ Len(stats) > 0
        /\ Len(stats[Len(stats)][1]) = Len(LastTargets)
        /\ \A r \in 1..Len(stats[Len(stats)][1]) :
              \A i \in 1..Len(iou_levels) : ~ stats[Len(stats)][1][r][i]

\* C21 as amended: an image with zero predictions and N > 0 targets
\* contributes no row of the correct matrix, no confidence and no
\* prediction class, and the class ids of its N targets, to the stacked
\* statistics: the stacked target classes count every target of every
\* image that has targets, the other three arrays every prediction of
\* those images.
C21_TargetClassesOnly ==
    /\ (InMAPLoop /\ Unpredicted) =>
          /\ correct = << >>
          /\ Len(stats) > 0
          /\ stats[Len(stats)] =
                 << << >>, << >>, << >>, Column(LastTargets, class_id_idx)>>
    /\ (pc = "map_done" /\ Len(stats) > 0) =>
          /\ Len(stats[4]) = Total(targets, WithTargets)
          /\ Len(stats[1]) = Total(predictions, WithTargets)
          /\ Len(stats[2]) = Total(predictions, WithTargets)
          /\ Len(stats[3]) = Total(predictions, WithTargets)

\* The statistics of an image with 2 targets and no predictions, stacked
\* with those of an image with predictions.
C21_Witness ==
    /\ pc = "map_done"
    /\ Len(stats) > 0
    /\ \E k \in WithTargets : Len(predictions[k]) = 0 /\ Len(targets[k]) = 2
    /\ Len(stats[4]) = 3
    /\ Len(stats[1]) = 1

----------------------------------------------------------------------------
\* C22: an image with zero targets contributes nothing to the AP
\* statistics: adding such an image, with any number of predictions of any
\* class and confidence, to a dataset leaves map, map50, map75 and
\* per_class_ap returned by MeanAveragePrecision.from_tensors unchanged.
C22_ImageWithoutTargetsChangesNothing ==
    (ReturnedMAP /\ earlier # << >>) =>
        /\ mean_average_precision.map = earlier[1].map
        /\ mean_average_precision.map50 = earlier[1].map50
        /\ mean_average_precision.map75 = earlier[1].map75
        /\ mean_average_precision.per_class_ap = earlier[1].per_class_ap

\* The added image has a prediction of a class of the targets, of a
\* confidence above that of a correct prediction, and the values are not 0.
C22_Witness ==
    /\ ReturnedMAP
    /\ earlier # << >>
    /\ earlier[1].map # Zero
    /\ \E k \in 1..Len(targets) :
          /\ Len(targets[k]) = 0
          /\ Len(predictions[k]) = 2
          /\ \E c \in TargetClasses : predictions[k][1][class_id_idx] = c

----------------------------------------------------------------------------
\* C23: for every candidate set, ConfusionMatrix._drop_extra_matches
\* returns exactly the greedy matching: the pairs kept when the candidates
\* are visited in descending IoU order and a pair is kept if and only if
\* neither its target index nor its prediction index was consumed by an
\* earlier kept pair.

\* The <<target index, prediction index>> pairs of the rows of m.
Pairs(m) == {<<m[k][1], m[k][2]>> : k \in 1..Len(m)}

\* The orders that visit the rows of c in descending IoU order.
Descending(c) ==
    {f \in Orders(Len(c)) :
        \A a, b \in 1..Len(c) : a < b => ~ IoULess(c[f[a]][3], c[f[b]][3])}

\* The pairs the greedy matching keeps of the rows k.. of c, after kept.
RECURSIVE Greedy(_, _, _)
Greedy(c, k, kept) ==
    IF k > Len(c) THEN kept
    ELSE LET free == \A r \in kept : r[1] # c[k][1] /\ r[2] # c[k][2]
         IN  Greedy(c, k + 1,
                    IF free THEN kept \cup {<<c[k][1], c[k][2]>>} ELSE kept)

\* The greedy matchings of c, one for each descending order.
GreedyMatchings(c) == {Greedy(Permute(c, f), 1, {}) : f \in Descending(c)}

C23_DropExtraMatchesIsGreedy ==
    EvaluatedCM => Pairs(matches) \in GreedyMatchings(LastCandidates)

----------------------------------------------------------------------------
\* C24: when several candidate pairs that compete for the same target or
\* the same prediction have equal IoU, ConfusionMatrix._drop_extra_matches
\* keeps the one that appears first in the candidate list (first seen
\* wins, under the stable sort order), and the choice is deterministic.

\* Rows a and b of the candidate list have the target or the prediction
\* in common.
Competing(a, b) ==
    /\ a # b
    /\ \/ LastCandidates[a][1] = LastCandidates[b][1]
       \/ LastCandidates[a][2] = LastCandidates[b][2]

\* Of two competing rows of equal IoU, the earlier of which no row of a
\* higher IoU competes with, the later is not kept.
C24_FirstSeenWins ==
    EvaluatedCM =>
        \A a, b \in 1..Len(LastCandidates) :
            ( /\ a < b
              /\ Competing(a, b)
              /\ IoUEq(LastCandidates[a][3], LastCandidates[b][3])
              /\ \A c \in 1..Len(LastCandidates) :
                    Competing(c, a) =>
                        ~ IoULess(LastCandidates[a][3], LastCandidates[c][3]) )
            => <<LastCandidates[b][1], LastCandidates[b][2]>> \notin Pairs(matches)

----------------------------------------------------------------------------
\* C27: the matching of the confusion matrix is maximal: after
\* evaluate_detection_batch no target counted in the background column
\* (false negative) and surviving prediction counted in the background row
\* (false positive) of the same image have an IoU with each other strictly
\* greater than iou_threshold.
C27_MatchingIsMaximal ==
    EvaluatedCM =>
        \A i \in 1..Len(LastTargets) : \A j \in 1..Len(LastFiltered) :
            ( /\ i \notin MatchedTargets
              /\ j \notin MatchedDetections
              /\ batch[LastTrueClasses[i]][num_classes] > 0
              /\ batch[num_classes][LastDetectionClasses[j]] > 0 )
            => ~ IoUAbove(LastIoU(i, j), iou_threshold)

----------------------------------------------------------------------------
\* C26: ConfusionMatrix.from_detections and
\* MeanAveragePrecision.from_detections called with a predictions list and
\* a targets list of different lengths raise an error and return no result
\* (the extra entries of the longer list are not silently ignored).
C26_DifferentLengthDetectionsRaise ==
    Len(prediction_detections) # Len(target_detections) =>
        pc \notin {"cm_done", "map_done", "map_returned"}

----------------------------------------------------------------------------
\* C25: at every IoU level, the set of predictions that
\* MeanAveragePrecision._match_detection_batch marks correct equals the
\* predictions matched by the greedy IoU-descending one-to-one matching
\* over the pairs of one class with an IoU of at least the level; in
\* particular a target with several eligible predictions marks the one of
\* the highest IoU.

\* The predictions marked correct at level l of the sweep.
CorrectAt(l) == {p \in 1..Len(correct) : correct[p][l]}

\* The predictions the greedy matchings of level l match.
GreedyCorrectAt(l) ==
    {{pair[2] : pair \in g} :
        g \in GreedyMatchings(level_candidates(LastPredictions, LastTargets,
                                               iou_levels[l]))}

C25_CorrectIsGreedy ==
    EvaluatedMAP =>
        \A l \in 1..Len(iou_levels) : CorrectAt(l) \in GreedyCorrectAt(l)

----------------------------------------------------------------------------
\* C28: in the matrix MeanAveragePrecision._match_detection_batch returns,
\* correctness is monotone in the IoU level: a prediction marked correct at
\* some level is marked correct at every lower level of the sweep.
C28_CorrectIsMonotone ==
    EvaluatedMAP =>
        \A p \in 1..Len(correct) : \A l \in 1..Len(iou_levels) :
            correct[p][l] => \A lower \in 1..(l - 1) : correct[p][lower]

====
